---- MODULE Spec2Model ----
(***************************************************************************)
(* Fapp.py: a Flask application with one route, "/", whose view `home`     *)
(* returns an HTML page embedding datetime.now() formatted as              *)
(* "%Y-%m-%d %H:%M:%S", served by app.run(host='0.0.0.0', port=8080).      *)
(*                                                                         *)
(* Strings are sequences of one-character strings, so that formatting,     *)
(* f-string evaluation, substring search and pattern matching are          *)
(* computed rather than assumed.  A code point outside ASCII is written    *)
(* "U+<hex>" and is one element.                                           *)
(*                                                                         *)
(* The host's time zone is taken to be UTC: localtime is the proleptic     *)
(* Gregorian conversion of seconds since the epoch.                        *)
(***************************************************************************)
EXTENDS Integers, Sequences, FiniteSets, TLC

VARIABLES
  globals,    \* per process: the module namespace of Fapp.py (empty before it runs)
  status,     \* per process: "idle" | "serving" | "exited"
  listening,  \* the listening sockets: records [inst, host, port]
  clock,      \* the system clock, seconds since the epoch
  ticks,      \* how many times the clock has advanced
  nextId,     \* how many requests have been accepted
  inflight,   \* request id -> the frame of the call that handles it
  responses,  \* request id -> the response sent
  failures    \* the faults that have been raised: records [inst, kind, id]

vars == <<globals, status, listening, clock, ticks, nextId, inflight, responses, failures>>

----------------------------------------------------------------------------
(* Bounds of the model. *)

MaxInstances == 2
MaxRequests == 2
MaxTicks == 1
\* 2025-12-31 23:59:59 UTC
ClockStart == 1767225599
\* the seconds by which the clock advances at a time
ClockSteps == {1}

Instances == 1..MaxInstances
\* a namespace with no name bound: a module not yet loaded
EmptyNamespace == [name \in {} |-> 0]

----------------------------------------------------------------------------
(* Line 48: the arguments of app.run. *)

HOST == <<"0", ".", "0", ".", "0", ".", "0">>
PORT == 8080

----------------------------------------------------------------------------
(* Line 41: datetime.now() and strftime("%Y-%m-%d %H:%M:%S"). *)

DigitChar(d) == <<"0", "1", "2", "3", "4", "5", "6", "7", "8", "9">>[d + 1]

RECURSIVE Digits(_)
\* the decimal representation of a natural number
Digits(n) ==
  IF n < 10 THEN <<DigitChar(n)>>
  ELSE Digits(n \div 10) \o <<DigitChar(n % 10)>>

RECURSIVE Zeros(_)
Zeros(k) == IF k <= 0 THEN <<>> ELSE <<"0">> \o Zeros(k - 1)

\* a mutant of ZeroPad: the number without padding ("%-d" instead of "%d")
ZeroPad_None(n, width) == Digits(n)

\* C's "%0<width>d"
ZeroPad(n, width) == Zeros(width - Len(Digits(n))) \o Digits(n)

\* the civil date of a day number counted from 1970-01-01
CivilFromDays(z) ==
  LET s   == z + 719468
      era == s \div 146097
      doe == s - era * 146097
      yoe == (doe - doe \div 1460 + doe \div 36524 - doe \div 146096) \div 365
      doy == doe - (365 * yoe + yoe \div 4 - yoe \div 100)
      mp  == (5 * doy + 2) \div 153
      d   == doy - (153 * mp + 2) \div 5 + 1
      m   == IF mp < 10 THEN mp + 3 ELSE mp - 9
      y   == yoe + era * 400 + (IF m <= 2 THEN 1 ELSE 0)
  IN  [year |-> y, month |-> m, day |-> d]

\* the broken-down local time of t seconds since the epoch
localtime(t) ==
  LET date == CivilFromDays(t \div 86400)
      rem  == t % 86400
  IN  [year |-> date.year, month |-> date.month, day |-> date.day,
       hour |-> rem \div 3600, minute |-> (rem % 3600) \div 60, second |-> rem % 60]

\* a mutant of datetime_now: the time captured once, when the module was loaded
datetime_now_AtImport(c) == localtime(ClockStart)

\* datetime.now(): a naive datetime of the current local time
datetime_now(c) == localtime(c)

FORMAT ==
  <<"%", "Y", "-", "%", "m", "-", "%", "d", " ", "%", "H", ":", "%", "M", ":", "%", "S">>

\* one conversion of strftime; %Y is the year's decimal digits, unpadded (glibc)
Directive(dt, c) ==
  CASE c = "Y" -> Digits(dt.year)
    [] c = "m" -> ZeroPad(dt.month, 2)
    [] c = "d" -> ZeroPad(dt.day, 2)
    [] c = "H" -> ZeroPad(dt.hour, 2)
    [] c = "M" -> ZeroPad(dt.minute, 2)
    [] c = "S" -> ZeroPad(dt.second, 2)
    [] OTHER   -> <<"%", c>>

RECURSIVE strftime(_, _)
strftime(dt, fmt) ==
  IF fmt = <<>> THEN <<>>
  ELSE IF Head(fmt) = "%" /\ Len(fmt) >= 2
       THEN Directive(dt, fmt[2]) \o strftime(dt, Tail(Tail(fmt)))
       ELSE <<Head(fmt)>> \o strftime(dt, Tail(fmt))

----------------------------------------------------------------------------
(* Lines 8-45: the f-string.  TEMPLATE_HEAD is the literal text before the *)
(* replacement field of line 41 and TEMPLATE_TAIL the text after it, one   *)
(* row per source line, as written in the source ("{{" and "}}" included). *)

TEMPLATE_HEAD ==
  <<
  <<"\n">>,
  <<" ", " ", " ", " ", "<", "!", "D", "O", "C", "T", "Y", "P", "E", " ", "h", "t", "m", "l", ">", "\n">>,
  <<" ", " ", " ", " ", "<", "h", "t", "m", "l", " ", "l", "a", "n", "g", "=", "\"", "e", "n", "\"", ">", "\n">>,
  <<" ", " ", " ", " ", "<", "h", "e", "a", "d", ">", "\n">>,
  <<" ", " ", " ", " ", " ", " ", "<", "m", "e", "t", "a", " ", "c", "h", "a", "r", "s", "e", "t", "=", "\"", "U", "T", "F", "-", "8", "\"", ">", "\n">>,
  <<" ", " ", " ", " ", " ", " ", "<", "m", "e", "t", "a", " ", "n", "a", "m", "e", "=", "\"", "v", "i", "e", "w", "p", "o", "r", "t", "\"", " ", "c", "o", "n", "t", "e", "n", "t", "=", "\"", "w", "i", "d", "t", "h", "=", "d", "e", "v", "i", "c", "e", "-", "w", "i", "d", "t", "h", ",", " ", "i", "n", "i", "t", "i", "a", "l", "-", "s", "c", "a", "l", "e", "=", "1", ".", "0", "\"", ">", "\n">>,
  <<" ", " ", " ", " ", " ", " ", "<", "t", "i", "t", "l", "e", ">", "S", "t", "a", "g", "e", "1", " ", "H", "N", "G", "1", "3", " ", "D", "e", "p", "l", "o", "y", "m", "e", "n", "t", " ", "S", "u", "c", "c", "e", "s", "s", "f", "u", "l", "!", "<", "/", "t", "i", "t", "l", "e", ">", "\n">>,
  <<" ", " ", " ", " ", " ", " ", "<", "s", "t", "y", "l", "e", ">", "\n">>,
  <<" ", " ", " ", " ", " ", " ", " ", " ", "b", "o", "d", "y", " ", "{", "{", "\n">>,
  <<" ", " ", " ", " ", " ", " ", " ", " ", " ", " ", "f", "o", "n", "t", "-", "f", "a", "m", "i", "l", "y", ":", " ", "A", "r", "i", "a", "l", ",", " ", "s", "a", "n", "s", "-", "s", "e", "r", "i", "f", ";", "\n">>,
  <<" ", " ", " ", " ", " ", " ", " ", " ", " ", " ", "d", "i", "s", "p", "l", "a", "y", ":", " ", "f", "l", "e", "x", ";", "\n">>,
  <<" ", " ", " ", " ", " ", " ", " ", " ", " ", " ", "j", "u", "s", "t", "i", "f", "y", "-", "c", "o", "n", "t", "e", "n", "t", ":", " ", "c", "e", "n", "t", "e", "r", ";", "\n">>,
  <<" ", " ", " ", " ", " ", " ", " ", " ", " ", " ", "a", "l", "i", "g", "n", "-", "i", "t", "e", "m", "s", ":", " ", "c", "e", "n", "t", "e", "r", ";", "\n">>,
  <<" ", " ", " ", " ", " ", " ", " ", " ", " ", " ", "h", "e", "i", "g", "h", "t", ":", " ", "1", "0", "0", "v", "h", ";", "\n">>,
  <<" ", " ", " ", " ", " ", " ", " ", " ", " ", " ", "m", "a", "r", "g", "i", "n", ":", " ", "0", ";", "\n">>,
  <<" ", " ", " ", " ", " ", " ", " ", " ", " ", " ", "b", "a", "c", "k", "g", "r", "o", "u", "n", "d", ":", " ", "l", "i", "n", "e", "a", "r", "-", "g", "r", "a", "d", "i", "e", "n", "t", "(", "1", "3", "5", "d", "e", "g", ",", " ", "#", "3", "f", "8", "b", "c", "d", " ", "0", "%", ",", " ", "#", "2", "a", "6", "2", "9", "a", " ", "1", "0", "0", "%", ")", ";", "\n">>,
  <<" ", " ", " ", " ", " ", " ", " ", " ", " ", " ", "c", "o", "l", "o", "r", ":", " ", "w", "h", "i", "t", "e", ";", "\n">>,
  <<" ", " ", " ", " ", " ", " ", " ", " ", "}", "}", "\n">>,
  <<" ", " ", " ", " ", " ", " ", " ", " ", ".", "c", "o", "n", "t", "a", "i", "n", "e", "r", " ", "{", "{", "\n">>,
  <<" ", " ", " ", " ", " ", " ", " ", " ", " ", " ", "t", "e", "x", "t", "-", "a", "l", "i", "g", "n", ":", " ", "c", "e", "n", "t", "e", "r", ";", "\n">>,
  <<" ", " ", " ", " ", " ", " ", " ", " ", " ", " ", "p", "a", "d", "d", "i", "n", "g", ":", " ", "2", "r", "e", "m", ";", "\n">>,
  <<" ", " ", " ", " ", " ", " ", " ", " ", " ", " ", "b", "a", "c", "k", "g", "r", "o", "u", "n", "d", ":", " ", "r", "g", "b", "a", "(", "2", "5", "5", ",", " ", "2", "5", "5", ",", " ", "2", "5", "5", ",", " ", "0", ".", "1", ")", ";", "\n">>,
  <<" ", " ", " ", " ", " ", " ", " ", " ", " ", " ", "b", "o", "r", "d", "e", "r", "-", "r", "a", "d", "i", "u", "s", ":", " ", "1", "0", "p", "x", ";", "\n">>,
  <<" ", " ", " ", " ", " ", " ", " ", " ", " ", " ", "b", "a", "c", "k", "d", "r", "o", "p", "-", "f", "i", "l", "t", "e", "r", ":", " ", "b", "l", "u", "r", "(", "1", "0", "p", "x", ")", ";", "\n">>,
  <<" ", " ", " ", " ", " ", " ", " ", " ", "}", "}", "\n">>,
  <<" ", " ", " ", " ", " ", " ", " ", " ", "h", "1", " ", "{", "{", " ", "m", "a", "r", "g", "i", "n", "-", "b", "o", "t", "t", "o", "m", ":", " ", "1", "r", "e", "m", ";", " ", "}", "}", "\n">>,
  <<" ", " ", " ", " ", " ", " ", " ", " ", ".", "t", "i", "m", "e", "s", "t", "a", "m", "p", " ", "{", "{", " ", "f", "o", "n", "t", "-", "s", "i", "z", "e", ":", " ", "0", ".", "9", "e", "m", ";", " ", "o", "p", "a", "c", "i", "t", "y", ":", " ", "0", ".", "8", ";", " ", "}", "}", "\n">>,
  <<" ", " ", " ", " ", " ", " ", "<", "/", "s", "t", "y", "l", "e", ">", "\n">>,
  <<" ", " ", " ", " ", "<", "/", "h", "e", "a", "d", ">", "\n">>,
  <<" ", " ", " ", " ", "<", "b", "o", "d", "y", ">", "\n">>,
  <<" ", " ", " ", " ", " ", " ", "<", "d", "i", "v", " ", "c", "l", "a", "s", "s", "=", "\"", "c", "o", "n", "t", "a", "i", "n", "e", "r", "\"", ">", "\n">>,
  <<" ", " ", " ", " ", " ", " ", " ", " ", "<", "h", "1", ">", "U+1F680", "S", "t", "a", "g", "e", "1", " ", "H", "N", "G", "1", "3", " ", "D", "e", "p", "l", "o", "y", "m", "e", "n", "t", " ", "S", "u", "c", "c", "e", "s", "s", "f", "u", "l", "!", "<", "/", "h", "1", ">", "\n">>,
  <<" ", " ", " ", " ", " ", " ", " ", " ", "<", "p", ">", "Y", "o", "u", "r", " ", "a", "u", "t", "o", "m", "a", "t", "e", "d", " ", "d", "e", "p", "l", "o", "y", "m", "e", "n", "t", " ", "s", "c", "r", "i", "p", "t", " ", "i", "s", " ", "w", "o", "r", "k", "i", "n", "g", "!", "<", "/", "p", ">", "\n">>,
  <<" ", " ", " ", " ", " ", " ", " ", " ", "<", "p", " ", "c", "l", "a", "s", "s", "=", "\"", "t", "i", "m", "e", "s", "t", "a", "m", "p", "\"", ">", "S", "e", "r", "v", "e", "r", " ", "T", "i", "m", "e", ":", " ">>
  >>

TEMPLATE_TAIL ==
  <<
  <<"<", "/", "p", ">", "\n">>,
  <<" ", " ", " ", " ", " ", " ", "<", "/", "d", "i", "v", ">", "\n">>,
  <<" ", " ", " ", " ", "<", "/", "b", "o", "d", "y", ">", "\n">>,
  <<" ", " ", " ", " ", "<", "/", "h", "t", "m", "l", ">", "\n">>,
  <<" ", " ", " ", " ">>
  >>

RECURSIVE FStringLine(_)
\* the value of a literal part of an f-string: "{{" is "{" and "}}" is "}"
FStringLine(s) ==
  IF s = <<>> THEN <<>>
  ELSE IF Len(s) >= 2 /\ s[1] \in {"{", "}"} /\ s[2] = s[1]
       THEN <<s[1]>> \o FStringLine(Tail(Tail(s)))
       ELSE <<s[1]>> \o FStringLine(Tail(s))

RECURSIVE FStringLiteral(_)
FStringLiteral(rows) ==
  IF rows = <<>> THEN <<>>
  ELSE FStringLine(Head(rows)) \o FStringLiteral(Tail(rows))

HomeHead == FStringLiteral(TEMPLATE_HEAD)
HomeTail == FStringLiteral(TEMPLATE_TAIL)

\* a mutant of home: the page with every "S" in lower case
home_LowerCase(now) ==
  LET page == HomeHead \o strftime(now, FORMAT) \o HomeTail
  IN  [i \in 1..Len(page) |-> IF page[i] = "S" THEN "s" ELSE page[i]]

\* the value home returns, given the datetime its call of datetime.now() returned
home(now) == HomeHead \o strftime(now, FORMAT) \o HomeTail

----------------------------------------------------------------------------
(* Lines 4-6: app = Flask(__name__) and @app.route('/'): one rule, "/",    *)
(* for the methods Flask gives a route by default, bound to home.          *)

ModuleNamespace ==
  [app |-> [url_map |-> {[rule |-> <<"/">>, endpoint |-> "home",
                          methods |-> {"GET", "HEAD", "OPTIONS"}]}]]

\* The requests a client sends: method, path, query string, headers, body.
Requests ==
  { [method |-> "GET", path |-> <<"/">>, query |-> <<>>, headers |-> {}, body |-> <<>>],
    [method |-> "GET", path |-> <<"/">>, query |-> <<"n", "=", "1">>,
     headers |-> {<<"Accept", "text/plain">>}, body |-> <<"x">>],
    [method |-> "GET", path |-> <<"/", "x">>, query |-> <<>>, headers |-> {}, body |-> <<>>],
    [method |-> "POST", path |-> <<"/">>, query |-> <<>>, headers |-> {}, body |-> <<"x">>] }

\* a mutant of Route: the rule is compared with the URL, query string included
Route_WithQuery(app, req) ==
  LET url   == IF req.query = <<>> THEN req.path ELSE req.path \o <<"?">> \o req.query
      rules == {r \in app.url_map : r.rule = url}
  IN  IF rules = {} THEN "NotFound"
      ELSE IF \A r \in rules : req.method \notin r.methods THEN "MethodNotAllowed"
      ELSE (CHOOSE r \in rules : req.method \in r.methods).endpoint

\* the endpoint the URL map gives a request: the rule is matched on the path alone
Route(app, req) ==
  LET rules == {r \in app.url_map : r.rule = req.path}
  IN  IF rules = {} THEN "NotFound"
      ELSE IF \A r \in rules : req.method \notin r.methods THEN "MethodNotAllowed"
      ELSE (CHOOSE r \in rules : req.method \in r.methods).endpoint

\* a mutant of make_response: the view's string sent as plain text
make_response_Plain(rv) == [status |-> 200, mimetype |-> "text/plain", body |-> rv]

\* a mutant of make_response: the view's string sent with status 201
make_response_Created(rv) == [status |-> 201, mimetype |-> "text/html", body |-> rv]

\* the response Flask makes of the string a view returns
make_response(rv) == [status |-> 200, mimetype |-> "text/html", body |-> rv]

\* the response Flask makes of an HTTP error: no rule (404), no such method (405),
\* an exception raised by the view (500)
ErrorResponse(code) == [status |-> code, mimetype |-> "text/html", body |-> <<"error page">>]

\* a mutant of FrameNow: the value is kept in one variable that all calls share,
\* so a call returns what the latest of the calls in progress has read
FrameNow_Shared(frames, id) ==
  LET readers == {j \in DOMAIN frames : frames[j].pc = "render"}
  IN  frames[CHOOSE j \in readers : \A k \in readers : k <= j].now

\* the datetime the call handling request id holds: a value of its own frame
FrameNow(frames, id) == frames[id].now

\* a mutant of AfterHome: home keeps the time it read in a module global
AfterHome_Cached(g, now) ==
  [name \in DOMAIN g \cup {"last_time"} |-> IF name = "last_time" THEN now ELSE g[name]]

\* the module namespace after a call of home: home assigns no global
AfterHome(g, now) == g

\* a mutant of CanBind: the address is bound whether or not it is in use
CanBind_Always(socks, host, port) == TRUE

\* bind succeeds when no socket listens on the port
CanBind(socks, host, port) == \A s \in socks : s.port # port

\* a mutant of AfterRun: the bind error is swallowed and the process goes on
AfterRun_Swallowed(st, i, bound) == [st EXCEPT ![i] = "serving"]

\* lines 47-48: app.run serves once bound; a bind error is not caught and ends the process
AfterRun(st, i, bound) == [st EXCEPT ![i] = IF bound THEN "serving" ELSE "exited"]

----------------------------------------------------------------------------
(* The state machine. *)

Remove(f, id) == [j \in DOMAIN f \ {id} |-> f[j]]
Put(f, id, v) == [j \in DOMAIN f \cup {id} |-> IF j = id THEN v ELSE f[j]]

Init ==
  /\ globals = [i \in Instances |-> EmptyNamespace]
  /\ status = [i \in Instances |-> "idle"]
  /\ listening = {}
  /\ clock = ClockStart
  /\ ticks = 0
  /\ nextId = 0
  /\ inflight = <<>>
  /\ responses = <<>>
  /\ failures = {}

\* python Fapp.py, the port free: the module is loaded and app.run binds and serves
StartBound(i) ==
  /\ status[i] = "idle"
  /\ \A j \in 1..(i - 1) : status[j] # "idle"
  /\ CanBind(listening, HOST, PORT)
  /\ globals' = [globals EXCEPT ![i] = ModuleNamespace]
  /\ listening' = listening \cup {[inst |-> i, host |-> HOST, port |-> PORT]}
  /\ status' = AfterRun(status, i, TRUE)
  /\ UNCHANGED <<clock, ticks, nextId, inflight, responses, failures>>

\* python Fapp.py, the port in use: app.run fails to bind
StartBindError(i) ==
  /\ status[i] = "idle"
  /\ \A j \in 1..(i - 1) : status[j] # "idle"
  /\ ~CanBind(listening, HOST, PORT)
  /\ globals' = [globals EXCEPT ![i] = ModuleNamespace]
  /\ status' = AfterRun(status, i, FALSE)
  /\ failures' = failures \cup {[inst |-> i, kind |-> "bind", id |-> 0]}
  /\ UNCHANGED <<listening, clock, ticks, nextId, inflight, responses>>

\* the system clock advances
Tick(d) ==
  /\ ticks < MaxTicks
  /\ clock' = clock + d
  /\ ticks' = ticks + 1
  /\ UNCHANGED <<globals, status, listening, nextId, inflight, responses, failures>>

\* a request reaches a listening process and is routed to home: the call begins
Accept(req) ==
  /\ nextId < MaxRequests
  /\ \E s \in listening :
       /\ s.port = PORT
       /\ status[s.inst] = "serving"
       /\ Route(globals[s.inst].app, req) = "home"
       /\ inflight' = Put(inflight, nextId + 1,
                          [req |-> req, inst |-> s.inst, pc |-> "call",
                           recvAt |-> clock, readAt |-> 0])
  /\ nextId' = nextId + 1
  /\ UNCHANGED <<globals, status, listening, clock, ticks, responses, failures>>

\* a request reaches a listening process and matches no rule or no method: 404 or 405
Reject(req) ==
  /\ nextId < MaxRequests
  /\ \E s \in listening :
       /\ s.port = PORT
       /\ status[s.inst] = "serving"
       /\ Route(globals[s.inst].app, req) # "home"
       /\ responses' = Put(responses, nextId + 1,
            ErrorResponse(IF Route(globals[s.inst].app, req) = "NotFound" THEN 404 ELSE 405)
              @@ [req |-> req, inst |-> s.inst, recvAt |-> clock, readAt |-> clock])
  /\ nextId' = nextId + 1
  /\ UNCHANGED <<globals, status, listening, clock, ticks, inflight, failures>>

\* line 41: the call reads the clock
ReadClock(id) ==
  /\ id \in DOMAIN inflight
  /\ inflight[id].pc = "call"
  /\ inflight' = [inflight EXCEPT ![id] =
                    [req |-> @.req, inst |-> @.inst, pc |-> "render", recvAt |-> @.recvAt,
                     now |-> datetime_now(clock), readAt |-> clock]]
  /\ UNCHANGED <<globals, status, listening, clock, ticks, nextId, responses, failures>>

\* lines 8-45: the call formats the page and returns it; Flask sends the response
Return(id) ==
  /\ id \in DOMAIN inflight
  /\ inflight[id].pc = "render"
  /\ LET f == inflight[id]
         now == FrameNow(inflight, id)
     IN  /\ responses' = Put(responses, id,
               make_response(home(now))
                 @@ [req |-> f.req, inst |-> f.inst, recvAt |-> f.recvAt,
                     readAt |-> f.readAt])
         /\ globals' = [globals EXCEPT ![f.inst] = AfterHome(@, now)]
  /\ inflight' = Remove(inflight, id)
  /\ UNCHANGED <<status, listening, clock, ticks, nextId, failures>>

\* line 41, the clock out of the platform's range: datetime.now() raises; Flask
\* answers 500 and the process serves on
ReadClockRaises(id) ==
  /\ id \in DOMAIN inflight
  /\ inflight[id].pc = "call"
  /\ LET f == inflight[id]
     IN  /\ responses' = Put(responses, id,
               ErrorResponse(500)
                 @@ [req |-> f.req, inst |-> f.inst, recvAt |-> f.recvAt,
                     readAt |-> clock])
         /\ failures' = failures \cup {[inst |-> f.inst, kind |-> "render", id |-> id]}
  /\ inflight' = Remove(inflight, id)
  /\ UNCHANGED <<globals, status, listening, clock, ticks, nextId>>

Next ==
  \/ \E i \in Instances : StartBound(i)
  \/ \E i \in Instances : StartBindError(i)
  \/ \E d \in ClockSteps : Tick(d)
  \/ \E req \in Requests : Accept(req)
  \/ \E req \in Requests : Reject(req)
  \/ \E id \in 1..MaxRequests : ReadClock(id)
  \/ \E id \in 1..MaxRequests : Return(id)

Spec == Init /\ [][Next]_vars

\* the program with the clock read of line 41 allowed to fail
NextFault ==
  \/ Next
  \/ \E id \in 1..MaxRequests : ReadClockRaises(id)

SpecFault == Init /\ [][NextFault]_vars

----------------------------------------------------------------------------
(* What the properties speak of. *)

IsRootGet(req) == req.method = "GET" /\ req.path = <<"/">>

\* the requests to "/" that have been answered
RootIds == {id \in DOMAIN responses : IsRootGet(responses[id].req)}

IsDigit(c) == c \in {"0", "1", "2", "3", "4", "5", "6", "7", "8", "9"}

OccursAt(s, lit, i) == s[i] = lit[1] /\ SubSeq(s, i, i + Len(lit) - 1) = lit

Contains(s, lit) == \E i \in 1..(Len(s) - Len(lit) + 1) : OccursAt(s, lit, i)

\* \d{4}-\d{2}-\d{2} \d{2}:\d{2}:\d{2} matches s from position i
TimestampAt(s, i) ==
  /\ i + 18 <= Len(s)
  /\ s[i + 4] = "-" /\ s[i + 7] = "-" /\ s[i + 10] = " " /\ s[i + 13] = ":" /\ s[i + 16] = ":"
  /\ \A k \in 0..18 \ {4, 7, 10, 13, 16} : IsDigit(s[i + k])

RECURSIVE MaskFrom(_, _, _)
\* s from position start on, the matches at the positions `at` replaced left to right
MaskFrom(s, start, at) ==
  LET rest == {j \in at : j >= start}
  IN  IF rest = {} THEN SubSeq(s, start, Len(s))
      ELSE LET p == CHOOSE j \in rest : \A k \in rest : j <= k
           IN  SubSeq(s, start, p - 1) \o <<"TIMESTAMP">> \o MaskFrom(s, p + 19, at)

\* s with every match of the pattern replaced by one placeholder
Mask(s) == MaskFrom(s, 1, {i \in 1..(Len(s) - 18) : TimestampAt(s, i)})

SERVER_TIME == <<"S", "e", "r", "v", "e", "r", " ", "T", "i", "m", "e", ":", " ">>

DEPLOYMENT_SUCCESSFUL ==
  <<"D", "e", "p", "l", "o", "y", "m", "e", "n", "t", " ",
    "S", "u", "c", "c", "e", "s", "s", "f", "u", "l", "!">>

\* the timestamp field of a page: the text from "Server Time: " to the next "<"
TimestampField(s) ==
  LET labels == {i \in 1..(Len(s) - Len(SERVER_TIME) + 1) : OccursAt(s, SERVER_TIME, i)}
  IN  IF labels = {} THEN <<>>
      ELSE LET p == (CHOOSE i \in labels : \A j \in labels : i <= j) + Len(SERVER_TIME)
               q == CHOOSE j \in p..(Len(s) + 1) :
                      /\ j = Len(s) + 1 \/ s[j] = "<"
                      /\ \A k \in p..(j - 1) : s[k] # "<"
           IN  SubSeq(s, p, q - 1)

\* the responses to GET /, each with the timestamp field of its body
Answers ==
  {[id |-> id, field |-> TimestampField(responses[id].body), readAt |-> responses[id].readAt,
    recvAt |-> responses[id].recvAt] : id \in RootIds}

\* what the client sees of a response
Sent(r) == [status |-> r.status, mimetype |-> r.mimetype, body |-> r.body]

\* a step of the handling of a request
HandlerStep == inflight' # inflight \/ responses' # responses

----------------------------------------------------------------------------
(* C1: every GET request to "/" that a bound server has accepted is being  *)
(* handled or has been answered with status 200, whatever was handled      *)
(* before it.                                                              *)
C1_RootAnswered200 ==
  \A id \in 1..nextId :
    /\ id \in DOMAIN responses \/ id \in DOMAIN inflight
    /\ id \in DOMAIN inflight => IsRootGet(inflight[id].req)
    /\ id \in RootIds => responses[id].status = 200 /\ status[responses[id].inst] = "serving"

\* a GET / answered 200 right after a request that was answered with an error
C1_Witness ==
  \E id \in RootIds :
    /\ id > 1 /\ (id - 1) \in DOMAIN responses
    /\ responses[id - 1].status # 200
    /\ responses[id].status = 200

(* C2: the timestamp field of a response to GET / matches                  *)
(* \d{4}-\d{2}-\d{2} \d{2}:\d{2}:\d{2} and is the format of the clock value *)
(* read while that request was being handled, not of an earlier value.     *)
C2_TimestampFresh ==
  \A r \in Answers :
    /\ Len(r.field) = 19 /\ TimestampAt(r.field, 1)
    /\ r.field = strftime(localtime(r.readAt), FORMAT)
    /\ r.recvAt <= r.readAt /\ r.readAt <= clock

\* a request received at 2025-12-31 23:59:59 whose clock read came a second later
C2_Witness ==
  \E r \in Answers :
    /\ r.recvAt = 1767225599
    /\ r.readAt = 1767225600
    /\ r.field =
         <<"2", "0", "2", "6", "-", "0", "1", "-", "0", "1", " ",
           "0", "0", ":", "0", "0", ":", "0", "0">>

(* C3: the bodies of any two responses to GET /, consecutive ones among    *)
(* them, are equal once the timestamp is replaced by a placeholder.        *)
C3_SameButTimestamp ==
  \A m, n \in {Mask(responses[id].body) : id \in RootIds} : m = n

\* two consecutive requests to "/" whose bodies differ
C3_Witness ==
  \E a \in RootIds :
    /\ (a + 1) \in RootIds
    /\ responses[a].body # responses[a + 1].body
    /\ TimestampField(responses[a].body) # TimestampField(responses[a + 1].body)
    /\ Mask(responses[a].body) # responses[a].body

(* C4: a process that serves is bound to 0.0.0.0:8080; at most one process *)
(* is bound to port 8080; a process started while the port is held fails   *)
(* to bind, exits and never handles a request.                             *)
C4_OneBound ==
  /\ Cardinality({s \in listening : s.port = PORT}) <= 1
  /\ \A s \in listening : s.host = HOST /\ s.port = PORT /\ status[s.inst] = "serving"
  /\ \A i \in Instances :
       /\ status[i] = "serving" => [inst |-> i, host |-> HOST, port |-> PORT] \in listening
       /\ status[i] = "exited" =>
            /\ \A s \in listening : s.inst # i
            /\ \A id \in DOMAIN responses : responses[id].inst # i
            /\ \A id \in DOMAIN inflight : inflight[id].inst # i

\* one process serves and has answered a request, and a second one failed to bind
C4_Witness ==
  \E i, j \in Instances :
    /\ status[i] = "serving" /\ status[j] = "exited"
    /\ \E id \in RootIds : responses[id].inst = i

(* C5: the body of every response to GET / contains "Deployment            *)
(* Successful!".                                                           *)
C5_ContainsLiteral ==
  \A id \in RootIds : Contains(responses[id].body, DEPLOYMENT_SUCCESSFUL)

\* a response to GET / whose body holds the literal and is more than the literal
C5_Witness ==
  \E id \in RootIds :
    /\ Contains(responses[id].body, DEPLOYMENT_SUCCESSFUL)
    /\ Len(responses[id].body) > Len(DEPLOYMENT_SUCCESSFUL)

(* C6: every response to GET / has content type text/html and its body is  *)
(* the string home returns for the datetime read during that request.      *)
C6_HtmlBody ==
  \A id \in RootIds :
    /\ responses[id].mimetype = "text/html"
    /\ responses[id].body = home(localtime(responses[id].readAt))

\* a response to GET / with a body that starts with the page's first line
C6_Witness ==
  \E id \in RootIds :
    /\ responses[id].mimetype = "text/html"
    /\ Contains(responses[id].body, <<"<", "!", "D", "O", "C", "T", "Y", "P", "E">>)

(* C7, as stated: every failure, a bind error or an error raised in home,  *)
(* ends the process, and no response is sent for the request that failed.  *)
C7_EveryFailureTerminates ==
  \A f \in failures :
    /\ status[f.inst] = "exited"
    /\ f.kind = "render" => f.id \notin DOMAIN responses

(* C7, amended: a bind error ends the process, which handles no request;   *)
(* an error raised in home is answered with status 500 and the process     *)
(* goes on serving.                                                        *)
C7_BindErrorTerminates ==
  \A f \in failures :
    /\ f.kind = "bind" =>
         /\ status[f.inst] = "exited"
         /\ \A s \in listening : s.inst # f.inst
         /\ \A id \in DOMAIN responses : responses[id].inst # f.inst
         /\ \A id \in DOMAIN inflight : inflight[id].inst # f.inst
    /\ f.kind = "render" =>
         /\ f.id \in DOMAIN responses
         /\ responses[f.id].status = 500
         /\ status[f.inst] = "serving"

\* a bind error and an error in home have both happened, and the process whose
\* call failed has answered a later request with 200
C7_Witness ==
  \E f, g \in failures :
    /\ f.kind = "bind" /\ status[f.inst] = "exited"
    /\ g.kind = "render"
    /\ \E id \in RootIds :
         id > g.id /\ responses[id].inst = g.inst /\ responses[id].status = 200

(* C8: two responses to GET / whose requests read the same clock value     *)
(* have the same status and the same body, whatever the query string, the  *)
(* headers and the body of the requests.                                   *)
C8_InputsIgnored ==
  \A a, b \in RootIds :
    responses[a].readAt = responses[b].readAt =>
      /\ responses[a].status = responses[b].status
      /\ responses[a].body = responses[b].body

\* two requests to "/" with different query, headers and body, handled at one clock value
C8_Witness ==
  \E a, b \in RootIds :
    /\ responses[a].req.query # responses[b].req.query
    /\ responses[a].req.headers # responses[b].req.headers
    /\ responses[a].req.body # responses[b].req.body
    /\ responses[a].readAt = responses[b].readAt

(* C9: a step of the handling of a request changes neither a module        *)
(* namespace, the processes, the sockets nor the clock, and a call that    *)
(* returns leaves no frame behind.                                         *)
C9_HandlerFrame ==
  [][HandlerStep =>
       /\ UNCHANGED <<globals, status, listening, clock>>
       /\ \A id \in DOMAIN responses' : id \notin DOMAIN inflight']_vars

\* a request to "/" answered after an earlier one was, with another timestamp
C9_Witness ==
  \E a, b \in Answers :
    /\ a.id < b.id
    /\ a.readAt < b.recvAt
    /\ a.field # b.field
    /\ globals[responses[b.id].inst] = ModuleNamespace

(* C10: under every interleaving, what is sent for a GET / is what the     *)
(* request would get handled alone at the clock value it read, the value a *)
(* call holds is the one it read itself, and two requests have the same    *)
(* timestamp only when they read the same clock value.                     *)
C10_Isolated ==
  /\ \A id \in RootIds :
       Sent(responses[id]) = make_response(home(datetime_now(responses[id].readAt)))
  /\ \A id \in DOMAIN inflight :
       inflight[id].pc = "render" => inflight[id].now = datetime_now(inflight[id].readAt)
  /\ \A a, b \in Answers : a.field = b.field => a.readAt = b.readAt

\* a call that read the clock first is still in progress while a call that read
\* it later has returned
C10_Witness ==
  \E a \in RootIds : \E b \in DOMAIN inflight :
    /\ inflight[b].pc = "render"
    /\ inflight[b].readAt < responses[a].readAt
    /\ inflight[b].now # localtime(responses[a].readAt)

====
